---- MODULE Spec2Model ----
(***************************************************************************)
(* Model of al1ssc_tools/orbit_tool/orbit_plotter_2D.py:                   *)
(* HeliosphericConstellation.__init__ (the constellation build) and        *)
(* HeliosphericConstellation.backmapping.                                  *)
(*                                                                         *)
(* Numbers.  The code computes in IEEE binary64.  The model keeps the      *)
(* shape of that arithmetic at a smaller size: a number is an integer      *)
(* count of quanta of 2^-FracBits (degrees, AU or km/s), and the result of *)
(* every arithmetic operation is rounded to Prec significant bits, ties to *)
(* even, as binary64 rounds to 53.  A division of a positive number by     *)
(* zero gives Inf (numpy scalars) or raises ZeroDivisionError (Python      *)
(* floats); which of the two happens depends on the type the ephemeris     *)
(* library hands back, so the model allows both.                           *)
(***************************************************************************)
EXTENDS Integers, Sequences, FiniteSets

VARIABLES
    pc,              \* position in __init__: "start", "loop", "done", "raised"; "call"/"ret" for a bare backmapping call
    exc,             \* the exception that left __init__ ("none" while there is none)
    body_list,       \* argument
    vsw_arg,         \* argument vsw_list as the caller passed it
    vsw_list,        \* local vsw_list (rebound at line 68 when the argument is empty)
    reference_long,  \* argument, <<>> for None
    reference_lat,   \* argument, <<>> for None
    pos_E,           \* self.pos_E, <<>> until set
    i,               \* 1-based index of the next body of the for loop
    bodies_dict,     \* local ordered dict: sequence of entries in key insertion order
    lists,           \* the ten local result lists, by their source names
    body_dict,       \* self.body_dict, <<>> (no attribute) until line 141: <<d>>
    max_dist,        \* self.max_dist, <<>> until line 142
    coord_table,     \* self.coord_table, <<>> until line 143
    lookups,         \* history: the get_horizons_coord calls made, in order
    diag,            \* history: the names printed by the except branch
    bm_args,         \* arguments of a bare backmapping call
    bm_ret           \* its return value, <<>> until it returned

vars == <<pc, exc, body_list, vsw_arg, vsw_list, reference_long, reference_lat,
          pos_E, i, bodies_dict, lists, body_dict, max_dist, coord_table,
          lookups, diag, bm_args, bm_ret>>

(***************************************************************************)
(* Bounds of the model.                                                    *)
(***************************************************************************)
MaxBodies == 3
FracBits == 4
Prec == 12

(***************************************************************************)
(* Floating point.                                                         *)
(***************************************************************************)
Unit == 2 ^ FracBits

\* the number x (degrees, AU or km/s) in quanta
Num(x) == x * Unit

Inf == (2 ^ 24) * Unit

IsInf(x) == x >= (2 ^ 23) * Unit \/ x <= 0 - (2 ^ 23) * Unit

Abs(x) == IF x < 0 THEN 0 - x ELSE x

Sgn(x) == IF x < 0 THEN 0 - 1 ELSE 1

\* n / d for n >= 0, d > 0, rounded to the nearest integer, ties to even
RoundDiv(n, d) ==
    LET q == n \div d
        r == n % d
    IN  IF 2 * r < d THEN q
        ELSE IF 2 * r > d THEN q + 1
        ELSE IF q % 2 = 0 THEN q ELSE q + 1

RECURSIVE BitLen(_)
BitLen(n) == IF n = 0 THEN 0 ELSE 1 + BitLen(n \div 2)

\* the spacing of representable numbers at magnitude a
Ulp(a) == IF Abs(a) < 2 ^ Prec THEN 1 ELSE 2 ^ (BitLen(Abs(a)) - Prec)

\* rounding of an exact result to the nearest representable number
Fl(x) ==
    IF IsInf(x) THEN Sgn(x) * Inf
    ELSE Sgn(x) * RoundDiv(Abs(x), Ulp(x)) * Ulp(x)

FAdd(a, b) == Fl(a + b)

FSub(a, b) == Fl(a - b)

FMul(a, b) == Sgn(a) * Sgn(b) * Fl(RoundDiv(Abs(a) * Abs(b), Unit))

\* a / b for a # 0; a division by zero that does not raise gives the infinity of a's sign
FDiv(a, b) ==
    IF b = 0 THEN Sgn(a) * Inf
    ELSE Sgn(a) * Sgn(b) * Fl(RoundDiv(Abs(a) * Unit, Abs(b)))

\* numpy.around(x): to the nearest whole number, ties to even, in units of 1
Around(x) == IF IsInf(x) THEN x ELSE Sgn(x) * RoundDiv(Abs(x), Unit)

\* numpy.around(x, 2): in units of 0.01
Around2(x) == IF IsInf(x) THEN x ELSE Sgn(x) * RoundDiv(Abs(x) * 100, Unit)

(***************************************************************************)
(* backmapping (lines 168-212).                                            *)
(***************************************************************************)
\* np.nan, and a float, as the value of sep
NaN == <<>>

Val(x) == <<x>>

\* degrees(omega) * AU: the degrees the Sun turns while the wind covers one AU
\* at 1 km/s, 360 / (25.38 * 24 * 60 * 60) * 149597870.7, to the nearest degree
OmegaAU == 24560

\* lines 199-200: tt = dist * AU / vsw; alpha = degrees(omega * tt)
BackmappingAngle(dist, vsw) == FDiv(FMul(dist, Num(OmegaAU)), vsw)

\* WrapSep taking the separation of the body instead of that of its footpoint
WrapSepOfBody(lon, alpha, ref) ==
    LET sep0 == FSub(lon, ref)
        sep1 == IF sep0 > Num(180) THEN FSub(sep0, Num(360)) ELSE sep0
    IN  IF sep1 < Num(0 - 180) THEN FSub(Num(360), Abs(sep1)) ELSE sep1

\* lines 203-208: the separation of lon + alpha from reference_long, wrapped
WrapSep(lon, alpha, ref) ==
    LET sep0 == FSub(FAdd(lon, alpha), ref)
        sep1 == IF sep0 > Num(180) THEN FSub(sep0, Num(360)) ELSE sep0
    IN  IF sep1 < Num(0 - 180) THEN FSub(Num(360), Abs(sep1)) ELSE sep1

\* the (sep, alpha) that backmapping returns when it returns
backmapping(body_pos, ref_long, vsw) ==
    LET alpha == BackmappingAngle(body_pos.radius, vsw)
    IN  [sep |-> IF ref_long # <<>> THEN Val(WrapSep(body_pos.lon, alpha, ref_long[1]))
                 ELSE NaN,
         alpha |-> alpha]

(***************************************************************************)
(* The inputs and the collaborators of a build.                            *)
(***************************************************************************)
\* the names the caller may list; each is in the body catalog
Names == {"Mars", "PSP", "Juno"}

\* Body.objects.get(name): the catalog record of a name
Catalog(name) ==
    IF name = "Mars" THEN [body_id |-> "499", name |-> name, color |-> "red"]
    ELSE IF name = "PSP" THEN [body_id |-> "-96", name |-> name, color |-> "purple"]
    ELSE [body_id |-> "-61", name |-> name, color |-> "orange"]

\* wind speeds the caller may pass, in km/s
Speeds == {Num(0), Num(800)}

\* the default wind speed of line 68, in km/s
DefaultVsw == 400

\* positions the ephemeris provider may return for Earth (Carrington frame)
EarthPositions ==
    { [lon |-> Num(350), lat |-> Num(0), radius |-> Num(1)],
      [lon |-> Num(10), lat |-> Num(7), radius |-> Num(1)] }

\* positions the ephemeris provider may return for a body
BodyPositions ==
    { [lon |-> Num(10), lat |-> Num(5), radius |-> Num(1)],
      [lon |-> Num(350), lat |-> Num(0 - 3), radius |-> Num(10)] }

\* (reference_long, reference_lat) as the caller may pass them
References ==
    { <<<<>>, <<>>>>, <<<<Num(10)>>, <<Num(5)>>>>, <<<<Num(350)>>, <<>>>> }

SeqsUpTo(S, n) == UNION { [1..k -> S] : k \in 0..n }

\* the exception get_horizons_coord raises when it has no ephemeris
LookupFailure == "ValueError"

(***************************************************************************)
(* The ordered dict bodies_dict and the result lists.                      *)
(***************************************************************************)
Keys(d) == [k \in 1..Len(d) |-> d[k].key]

HasKey(d, key) == \E k \in 1..Len(d) : d[k].key = key

\* d[key] = v: a new key goes last, an existing key keeps its place
DictSet(d, key, v) ==
    IF HasKey(d, key)
    THEN [k \in 1..Len(d) |-> IF d[k].key = key THEN v ELSE d[k]]
    ELSE Append(d, v)

\* DictDel with the deletion forgotten
DictDelForgotten(d, key) == d

\* del d[key]
DictDel(d, key) == SelectSeq(d, LAMBDA e : e.key # key)

\* line 84: [body.body_id, body.name, body.color], to which the loop body appends
NewEntry(name) ==
    [key |-> name, body |-> Catalog(name), pos |-> <<>>, vsw |-> <<>>, sep |-> <<>>]

\* ListAppend inserting at the front
ListPrepend(l, x) == <<x>> \o l

\* list.append
ListAppend(l, x) == Append(l, x)

EmptyLists ==
    [body_lon_list |-> <<>>, body_lat_list |-> <<>>, body_dist_list |-> <<>>,
     longsep_E_list |-> <<>>, latsep_E_list |-> <<>>, body_vsw_list |-> <<>>,
     footp_long_list |-> <<>>, longsep_list |-> <<>>, latsep_list |-> <<>>,
     footp_longsep_list |-> <<>>]

\* lines 96-98 and 121-123: a - b, less 360 when above 180
LongSep(a, b) ==
    LET d == FSub(a, b)
    IN  IF d > Num(180) THEN FSub(d, Num(360)) ELSE d

\* lines 114-116: lon + alpha, less 360 when above 360
FootpLong(lon, alpha) ==
    LET f == FAdd(lon, alpha)
    IN  IF f > Num(360) THEN FSub(f, Num(360)) ELSE f

RECURSIVE SeqMax(_)
SeqMax(l) ==
    IF Len(l) = 1 THEN l[1]
    ELSE LET m == SeqMax(Tail(l)) IN IF l[1] > m THEN l[1] ELSE m

\* numpy.around over a list
AroundAll(l) == [k \in 1..Len(l) |-> Around(l[k])]

Around2All(l) == [k \in 1..Len(l) |-> Around2(l[k])]

\* lines 143-154: the columns of the DataFrame
TableOf(d, ls) ==
    [Body |-> Keys(d),
     Longitude |-> AroundAll(ls.body_lon_list),
     Latitude |-> AroundAll(ls.body_lat_list),
     Distance |-> Around2All(ls.body_dist_list),
     LongSepEarth |-> AroundAll(ls.longsep_E_list),
     LatSepEarth |-> AroundAll(ls.latsep_E_list)]

\* pandas builds a DataFrame from a dict of columns of one length, and raises otherwise
SameLength(t) ==
    /\ Len(t.Longitude) = Len(t.Body)
    /\ Len(t.Latitude) = Len(t.Body)
    /\ Len(t.Distance) = Len(t.Body)
    /\ Len(t.LongSepEarth) = Len(t.Body)
    /\ Len(t.LatSepEarth) = Len(t.Body)

(***************************************************************************)
(* HeliosphericConstellation.__init__ (lines 48-154), one action for each  *)
(* way through each of its three stretches: up to the loop, one iteration  *)
(* of the loop, and from the end of the loop on.  Every stretch begins at  *)
(* a call of the ephemeris provider or at the end of the loop.             *)
(***************************************************************************)
NoCall == [lon |-> 0, radius |-> 0, vsw |-> 0, ref |-> <<>>]

Init ==
    /\ pc = "start"
    /\ exc = "none"
    /\ body_list \in SeqsUpTo(Names, MaxBodies)
    /\ vsw_arg \in SeqsUpTo(Speeds, Len(body_list))
    /\ vsw_list = vsw_arg
    /\ \E r \in References : reference_long = r[1] /\ reference_lat = r[2]
    /\ pos_E = <<>>
    /\ i = 1
    /\ bodies_dict = <<>>
    /\ lists = EmptyLists
    /\ body_dict = <<>>
    /\ max_dist = <<>>
    /\ coord_table = <<>>
    /\ lookups = <<>>
    /\ diag = <<>>
    /\ bm_args = NoCall
    /\ bm_ret = <<>>

\* a call of get_horizons_coord: for Earth (index 0) or for body_list[index]; ret is
\* <<>> when it raised and <<position>> when it answered
Lookup(target, index, ret) == [target |-> target, index |-> index, ret |-> ret]

\* lines 60-65 when the provider has no ephemeris for Earth: the exception leaves __init__
LookupEarthFails ==
    /\ pc = "start"
    /\ lookups' = Append(lookups, Lookup("Earth", 0, <<>>))
    /\ pc' = "raised"
    /\ exc' = LookupFailure
    /\ UNCHANGED <<body_list, vsw_arg, vsw_list, reference_long, reference_lat, pos_E,
                   i, bodies_dict, lists, body_dict, max_dist, coord_table, diag,
                   bm_args, bm_ret>>

\* lines 67-68: an empty vsw_list becomes one default speed for each body
DefaultedVsw(vsw, bodies) ==
    IF Len(vsw) = 0 THEN [k \in 1..Len(bodies) |-> Num(DefaultVsw)] ELSE vsw

\* lines 60-80 when the provider answers for Earth
LookupEarthOk ==
    /\ pc = "start"
    /\ \E e \in EarthPositions :
         /\ pos_E' = <<e>>
         /\ lookups' = Append(lookups, Lookup("Earth", 0, <<e>>))
    /\ vsw_list' = DefaultedVsw(vsw_list, body_list)
    /\ bodies_dict' = <<>>
    /\ lists' = EmptyLists
    /\ i' = 1
    /\ pc' = "loop"
    /\ UNCHANGED <<exc, body_list, vsw_arg, reference_long, reference_lat, body_dict,
                   max_dist, coord_table, diag, bm_args, bm_ret>>

InLoop == pc = "loop" /\ i <= Len(body_list)

\* NextIndex staying on the same body
SameIndex(k) == k

\* the index of the body after body k of the for loop
NextIndex(k) == k + 1

\* lines 83-84
Entered == DictSet(bodies_dict, body_list[i], NewEntry(body_list[i]))

\* line 93
WithPos(p) ==
    DictSet(Entered, body_list[i], [NewEntry(body_list[i]) EXCEPT !.pos = <<p>>])

\* line 94
WithVsw(p) ==
    DictSet(Entered, body_list[i],
            [NewEntry(body_list[i]) EXCEPT !.pos = <<p>>, !.vsw = <<vsw_list[i]>>])

\* lines 96-107
ListsAtCall(p) ==
    [lists EXCEPT
       !.body_lon_list = ListAppend(@, p.lon),
       !.body_lat_list = ListAppend(@, p.lat),
       !.body_dist_list = ListAppend(@, p.radius),
       !.longsep_E_list = ListAppend(@, LongSep(p.lon, pos_E[1].lon)),
       !.latsep_E_list = ListAppend(@, FSub(p.lat, pos_E[1].lat)),
       !.body_vsw_list = ListAppend(@, vsw_list[i])]

\* lines 109-130
ListsAtEnd(p) ==
    LET r == backmapping(p, reference_long, vsw_list[i])
        l0 == ListsAtCall(p)
        l1 == [l0 EXCEPT !.footp_long_list = ListAppend(@, FootpLong(p.lon, r.alpha))]
        l2 == IF reference_long # <<>>
              THEN [l1 EXCEPT
                      !.longsep_list = ListAppend(@, LongSep(p.lon, reference_long[1])),
                      !.footp_longsep_list = ListAppend(@, r.sep[1])]
              ELSE l1
    IN  IF reference_lat # <<>>
        THEN [l2 EXCEPT !.latsep_list = ListAppend(@, FSub(p.lat, reference_lat[1]))]
        ELSE l2

\* lines 112 and 120: sep is appended to the entry, twice with a reference longitude
WithSep(p) ==
    LET r == backmapping(p, reference_long, vsw_list[i])
    IN  DictSet(Entered, body_list[i],
                [NewEntry(body_list[i]) EXCEPT
                   !.pos = <<p>>, !.vsw = <<vsw_list[i]>>,
                   !.sep = IF reference_long # <<>> THEN <<r.sep, r.sep>> ELSE <<r.sep>>])

\* lines 83-92 and 131-139: no ephemeris for the body; it is reported and dropped
BodyLookupFails ==
    /\ InLoop
    /\ lookups' = Append(lookups, Lookup(body_list[i], i, <<>>))
    /\ diag' = Append(diag, body_list[i])
    /\ bodies_dict' = DictDel(Entered, body_list[i])
    /\ i' = NextIndex(i)
    /\ UNCHANGED <<pc, exc, body_list, vsw_arg, vsw_list, reference_long, reference_lat,
                   pos_E, lists, body_dict, max_dist, coord_table, bm_args, bm_ret>>

\* lines 83-94 when vsw_list has no element i: IndexError is not caught by line 131
BodyIndexError ==
    /\ InLoop
    /\ i > Len(vsw_list)
    /\ \E p \in BodyPositions :
         /\ bodies_dict' = WithPos(p)
         /\ lookups' = Append(lookups, Lookup(body_list[i], i, <<p>>))
    /\ pc' = "raised"
    /\ exc' = "IndexError"
    /\ UNCHANGED <<body_list, vsw_arg, vsw_list, reference_long, reference_lat, pos_E,
                   i, lists, body_dict, max_dist, coord_table, diag, bm_args, bm_ret>>

\* lines 83-111 and 199 when vsw is 0 and the division raises
BodyZeroDivision ==
    /\ InLoop
    /\ i <= Len(vsw_list)
    /\ vsw_list[i] = 0
    /\ \E p \in BodyPositions :
         /\ bodies_dict' = WithVsw(p)
         /\ lists' = ListsAtCall(p)
         /\ lookups' = Append(lookups, Lookup(body_list[i], i, <<p>>))
    /\ pc' = "raised"
    /\ exc' = "ZeroDivisionError"
    /\ UNCHANGED <<body_list, vsw_arg, vsw_list, reference_long, reference_lat, pos_E,
                   i, body_dict, max_dist, coord_table, diag, bm_args, bm_ret>>

\* lines 83-130: the body is resolved
BodyResolved ==
    /\ InLoop
    /\ i <= Len(vsw_list)
    /\ \E p \in BodyPositions :
         /\ bodies_dict' = WithSep(p)
         /\ lists' = ListsAtEnd(p)
         /\ lookups' = Append(lookups, Lookup(body_list[i], i, <<p>>))
    /\ i' = NextIndex(i)
    /\ UNCHANGED <<pc, exc, body_list, vsw_arg, vsw_list, reference_long, reference_lat,
                   pos_E, body_dict, max_dist, coord_table, diag, bm_args, bm_ret>>

LoopEnded == pc = "loop" /\ i > Len(body_list)

\* lines 141-142 when no body resolved: numpy.max of an empty list raises ValueError
FinishEmpty ==
    /\ LoopEnded
    /\ Len(lists.body_dist_list) = 0
    /\ body_dict' = <<bodies_dict>>
    /\ pc' = "raised"
    /\ exc' = "ValueError"
    /\ UNCHANGED <<body_list, vsw_arg, vsw_list, reference_long, reference_lat, pos_E,
                   i, bodies_dict, lists, max_dist, coord_table, lookups, diag,
                   bm_args, bm_ret>>

\* lines 141-154 when the columns differ in length: the DataFrame constructor raises ValueError
FinishMismatch ==
    /\ LoopEnded
    /\ Len(lists.body_dist_list) > 0
    /\ ~SameLength(TableOf(bodies_dict, lists))
    /\ body_dict' = <<bodies_dict>>
    /\ max_dist' = <<SeqMax(lists.body_dist_list)>>
    /\ pc' = "raised"
    /\ exc' = "ValueError"
    /\ UNCHANGED <<body_list, vsw_arg, vsw_list, reference_long, reference_lat, pos_E,
                   i, bodies_dict, lists, coord_table, lookups, diag, bm_args, bm_ret>>

\* lines 141-154
Finish ==
    /\ LoopEnded
    /\ Len(lists.body_dist_list) > 0
    /\ SameLength(TableOf(bodies_dict, lists))
    /\ body_dict' = <<bodies_dict>>
    /\ max_dist' = <<SeqMax(lists.body_dist_list)>>
    /\ coord_table' = <<TableOf(bodies_dict, lists)>>
    /\ pc' = "done"
    /\ UNCHANGED <<exc, body_list, vsw_arg, vsw_list, reference_long, reference_lat,
                   pos_E, i, bodies_dict, lists, lookups, diag, bm_args, bm_ret>>

Next ==
    \/ LookupEarthFails
    \/ LookupEarthOk
    \/ BodyLookupFails
    \/ BodyIndexError
    \/ BodyZeroDivision
    \/ BodyResolved
    \/ FinishEmpty
    \/ FinishMismatch
    \/ Finish

Spec == Init /\ [][Next]_vars

(***************************************************************************)
(* A bare call of backmapping, for the properties of the function itself.  *)
(***************************************************************************)
BmLons == {Num(0), Num(10), Num(350)}

BmDists == {Unit \div 2, Num(1), Num(2), Num(10)}

BmSpeeds == {Num(0), Num(400), Num(800)}

BmRefs == {<<>>, <<Num(0)>>, <<Num(10)>>, <<Num(350)>>}

InitBackmap ==
    /\ pc = "call"
    /\ exc = "none"
    /\ bm_args \in [lon : BmLons, radius : BmDists, vsw : BmSpeeds, ref : BmRefs]
    /\ bm_ret = <<>>
    /\ body_list = <<>>
    /\ vsw_arg = <<>>
    /\ vsw_list = <<>>
    /\ reference_long = <<>>
    /\ reference_lat = <<>>
    /\ pos_E = <<>>
    /\ i = 1
    /\ bodies_dict = <<>>
    /\ lists = EmptyLists
    /\ body_dict = <<>>
    /\ max_dist = <<>>
    /\ coord_table = <<>>
    /\ lookups = <<>>
    /\ diag = <<>>

\* lines 189-212
BackmappingReturns ==
    /\ pc = "call"
    /\ bm_ret' = <<backmapping(bm_args, bm_args.ref, bm_args.vsw)>>
    /\ pc' = "ret"
    /\ UNCHANGED <<exc, body_list, vsw_arg, vsw_list, reference_long, reference_lat,
                   pos_E, i, bodies_dict, lists, body_dict, max_dist, coord_table,
                   lookups, diag, bm_args>>

\* line 199 when vsw is 0 and the division raises
BackmappingZeroDivision ==
    /\ pc = "call"
    /\ bm_args.vsw = 0
    /\ pc' = "raised"
    /\ exc' = "ZeroDivisionError"
    /\ UNCHANGED <<body_list, vsw_arg, vsw_list, reference_long, reference_lat,
                   pos_E, i, bodies_dict, lists, body_dict, max_dist, coord_table,
                   lookups, diag, bm_args, bm_ret>>

NextBackmap ==
    \/ BackmappingReturns
    \/ BackmappingZeroDivision

SpecBackmap == InitBackmap /\ [][NextBackmap]_vars

(***************************************************************************)
(* Properties.                                                             *)
(***************************************************************************)
Distinct(l) == \A j, k \in 1..Len(l) : l[j] = l[k] => j = k

\* the body lookups made so far, those that failed and those that answered
BodyLookups == SelectSeq(lookups, LAMBDA l : l.index > 0)

FailedLookups == SelectSeq(lookups, LAMBDA l : l.index > 0 /\ l.ret = <<>>)

ResolvedLookups == SelectSeq(lookups, LAMBDA l : l.index > 0 /\ l.ret # <<>>)

EarthResolved == Len(lookups) >= 1 /\ lookups[1].ret # <<>>

\* the arguments the docstring of the class allows: vsw_list empty or one positive
\* speed for each body, each body named once
ArgsAsDocumented ==
    /\ Distinct(body_list)
    /\ \/ vsw_arg = <<>>
       \/ /\ Len(vsw_arg) = Len(body_list)
          /\ \A k \in 1..Len(vsw_arg) : vsw_arg[k] > 0

InHalfOpenTurn(x) == x > Num(0 - 180) /\ x <= Num(180)

\* C1: with documented arguments, Earth resolved and two or more bodies of which at
\* most one has failed so far, the build has not raised; and when it is done with
\* exactly one failed lookup, every body was looked up, body_dict holds exactly the
\* N-1 resolved bodies and max_dist is the largest radius among those N-1.
C1_OneFailureTolerated ==
    (ArgsAsDocumented /\ Len(body_list) >= 2 /\ EarthResolved /\ Len(FailedLookups) <= 1)
    => /\ pc # "raised"
       /\ (pc = "done" /\ Len(FailedLookups) = 1)
          => /\ Len(BodyLookups) = Len(body_list)
             /\ Len(body_dict[1]) = Len(body_list) - 1
             /\ Keys(body_dict[1]) = [k \in 1..Len(ResolvedLookups) |-> ResolvedLookups[k].target]
             /\ \A k \in 1..Len(body_dict[1]) :
                  /\ body_dict[1][k].pos = ResolvedLookups[k].ret
                  /\ max_dist[1] >= ResolvedLookups[k].ret[1].radius
             /\ \E k \in 1..Len(ResolvedLookups) :
                  max_dist[1] = ResolvedLookups[k].ret[1].radius

\* a finished build of three bodies whose second lookup failed
C1_Witness ==
    /\ pc = "done"
    /\ ArgsAsDocumented
    /\ Len(body_list) = 3
    /\ Len(FailedLookups) = 1
    /\ lookups[3].ret = <<>>
    /\ Len(body_dict[1]) = 2

\* C2: every Earth-relative longitudinal separation, and every separation from a
\* supplied reference longitude, lies in (-180, 180].
C2_SeparationRange ==
    /\ \A k \in 1..Len(lists.longsep_E_list) : InHalfOpenTurn(lists.longsep_E_list[k])
    /\ \A k \in 1..Len(lists.longsep_list) : InHalfOpenTurn(lists.longsep_list[k])

\* C3: a vsw_list shorter than body_list never ends the build with an IndexError, and
\* a body without a paired speed is processed with 400 km/s.
C3_DefaultNotIndexError ==
    /\ exc # "IndexError"
    /\ \A k \in 1..Len(bodies_dict) :
         (bodies_dict[k].vsw # <<>> /\ Len(vsw_arg) = 0)
         => bodies_dict[k].vsw = <<Num(DefaultVsw)>>

\* the loop has run over every body and none resolved
NoneResolved ==
    /\ EarthResolved
    /\ pc \in {"done", "raised"}
    /\ Len(BodyLookups) = Len(body_list)
    /\ Len(ResolvedLookups) = 0

\* C4: when no body resolves the build ends in an error of its own, distinct from
\* the per-body lookup failure, and produces neither max_dist nor a coordinate table.
C4_EmptyResultError ==
    NoneResolved
    => /\ pc = "raised"
       /\ exc # "none"
       /\ exc # LookupFailure
       /\ max_dist = <<>>
       /\ coord_table = <<>>

\* C5: for a positive wind speed the magnetic footpoint longitude lies in [0, 360).
C5_FootpointRange ==
    \A k \in 1..Len(lists.footp_long_list) :
        lists.body_vsw_list[k] > 0
        => (lists.footp_long_list[k] >= 0 /\ lists.footp_long_list[k] < Num(360))

\* C6: with a non-positive wind speed in vsw_list no ephemeris lookup is ever made.
C6_RejectedBeforeLookup ==
    (\E k \in 1..Len(vsw_arg) : vsw_arg[k] <= 0) => lookups = <<>>

\* C7: the lookups made are Earth's and then those of the bodies of body_list in
\* order, one for each position and none twice; after a failed Earth lookup the
\* build has raised and no body is looked up; a finished build looked up every body.
C7_LookupOrder ==
    /\ Len(lookups) <= Len(body_list) + 1
    /\ \A k \in 1..Len(lookups) :
         IF k = 1 THEN lookups[k].index = 0 /\ lookups[k].target = "Earth"
         ELSE lookups[k].index = k - 1 /\ lookups[k].target = body_list[k - 1]
    /\ (Len(lookups) >= 1 /\ lookups[1].ret = <<>>)
       => (Len(lookups) = 1 /\ pc = "raised" /\ exc = LookupFailure)
    /\ pc # "start" => Len(lookups) >= 1
    /\ pc = "done" => Len(lookups) = Len(body_list) + 1

\* a finished build of three bodies, the second of which failed and was not retried
C7_Witness ==
    /\ pc = "done"
    /\ Len(lookups) = 4
    /\ lookups[3].ret = <<>>
    /\ lookups[4].ret # <<>>

\* C8: after a successful build the table's columns all have one row for each entry
\* of body_dict, the rows are the resolved bodies in body_list order, and row k
\* holds the rounded position and Earth separations of the body named in row k.
C8_TableRows ==
    pc = "done"
    => LET t == coord_table[1]
           d == body_dict[1]
       IN  /\ SameLength(t)
           /\ Len(t.Body) = Len(d)
           /\ t.Body = Keys(d)
           /\ Len(ResolvedLookups) = Len(d)
           /\ \A k \in 1..Len(d) :
                LET p == d[k].pos[1]
                IN  /\ t.Body[k] = ResolvedLookups[k].target
                    /\ p = ResolvedLookups[k].ret[1]
                    /\ t.Longitude[k] = Around(p.lon)
                    /\ t.Latitude[k] = Around(p.lat)
                    /\ t.Distance[k] = Around2(p.radius)
                    /\ t.LongSepEarth[k] = Around(LongSep(p.lon, pos_E[1].lon))
                    /\ t.LatSepEarth[k] = Around(FSub(p.lat, pos_E[1].lat))

\* a successful build of a list that names a body twice, with a failed lookup and
\* two rows that differ
C8_Witness ==
    /\ pc = "done"
    /\ ~Distinct(body_list)
    /\ Len(FailedLookups) >= 1
    /\ Len(coord_table[1].Body) = 2
    /\ coord_table[1].Longitude[1] # coord_table[1].Longitude[2]

\* a returned call with a body longitude and a positive wind speed
Returned == pc = "ret" /\ bm_args.vsw > 0

\* C9: with a reference longitude the returned sep lies in (-180, 180], for every
\* backmapping angle; without one it is NaN.
C9_SepRange ==
    Returned
    => IF bm_args.ref = <<>> THEN bm_ret[1].sep = NaN
       ELSE bm_ret[1].sep # NaN /\ InHalfOpenTurn(bm_ret[1].sep[1])

\* the round trip: the reference longitude is the body's own, alpha is below 180
RoundTrip ==
    /\ Returned
    /\ bm_args.ref = <<bm_args.lon>>
    /\ bm_ret[1].alpha < Num(180)

\* C10 as stated: the round trip returns sep equal to alpha exactly.
C10_RoundTripExact == RoundTrip => bm_ret[1].sep = <<bm_ret[1].alpha>>

\* C10 as amended: the round trip returns alpha up to the rounding of the sum
\* L + alpha: sep differs from alpha by at most the spacing of the floating-point
\* numbers at that sum, and is alpha exactly when the sum is representable.
C10_RoundTripRounded ==
    RoundTrip
    => LET sum == FAdd(bm_args.lon, bm_ret[1].alpha)
           sep == bm_ret[1].sep[1]
       IN  /\ Abs(sep - bm_ret[1].alpha) <= Ulp(sum)
           /\ sum = bm_args.lon + bm_ret[1].alpha => sep = bm_ret[1].alpha

\* a round trip at a longitude other than 0 that recovers a positive alpha
C10_Witness ==
    /\ RoundTrip
    /\ bm_args.lon > 0
    /\ bm_ret[1].alpha > Num(90)
    /\ bm_ret[1].sep = <<bm_ret[1].alpha>>

====
